---- MODULE Spec2Model ----
(***************************************************************************)
(* A model of topic_crawler.py: one run of main(), i.e. crawl_topic_ddg    *)
(* (ddg_search with its pagination loop, the per-hit fetch / clean / score *)
(* loop, the title dedup) and the output step.  Strings are sequences of   *)
(* one-character strings, so that the regular expressions of the source    *)
(* are computed on characters.  Scores are integers in thousandths.        *)
(***************************************************************************)
EXTENDS Integers, Sequences, FiniteSets, TLC

VARIABLES
  topic, year, country, max_urls,   \* the arguments main() passes to crawl_topic_ddg
  pc,                               \* position of the run
  query,                            \* crawl_topic_ddg: the search query, lines 166-171
  results, start, seeds,            \* ddg_search: collected hits, offset; the list it returned
  searchReqs, fetched,              \* network activity: search POSTs issued, URLs GET-fetched
  sresp,                            \* the answer to the last search request, until the hits are used
  delayed,                          \* a time.sleep ran since the last request
  years, topic_terms, use_country,  \* crawl_topic_ddg locals, lines 177-185
  idx, seen_url, out,               \* the for loop over seeds, lines 187-226
  resp, html, text, score,          \* the candidate under evaluation: response, body, text, score
  cstate, extracted, scored,        \* its state, and whether clean_text / relevance_score ran on it
  faultIdx,                         \* index of the first candidate whose fetch faulted, 0 if none
  records, printed, saved           \* main(): returned list, message printed, output file written

vars == << topic, year, country, max_urls, pc, query, results, start, seeds, searchReqs,
           sresp, fetched, delayed, years, topic_terms, use_country, idx, seen_url, out,
           resp, html, text, score, cstate, extracted, scored, faultIdx,
           records, printed, saved >>

-----------------------------------------------------------------------------
(* Strings *)

Chars(s) == [i \in 1..Len(s) |-> SubSeq(s, i, i)]

UpperChars == Chars("ABCDEFGHIJKLMNOPQRSTUVWXYZ")
LowerChars == Chars("abcdefghijklmnopqrstuvwxyz")
DigitChars == Chars("0123456789")

UpperSet == {UpperChars[i] : i \in 1..Len(UpperChars)}
LowerSet == {LowerChars[i] : i \in 1..Len(LowerChars)}
DigitSet == {DigitChars[i] : i \in 1..Len(DigitChars)}

IsUpper(c) == c \in UpperSet
IsLower(c) == c \in LowerSet
IsDigit(c) == c \in DigitSet
IsSpace(c) == c \in {" ", "\t", "\n"}
\* \w of the re module
IsWordChar(c) == IsUpper(c) \/ IsLower(c) \/ IsDigit(c) \/ c = "_"

LowerMap == [c \in UpperSet |-> LowerChars[CHOOSE i \in 1..Len(UpperChars) : UpperChars[i] = c]]

LowerChar(c) == IF IsUpper(c) THEN LowerMap[c] ELSE c

\* str.lower()
Lower(s) == [i \in 1..Len(s) |-> LowerChar(s[i])]

DigitVal(c) == (CHOOSE i \in 1..Len(DigitChars) : DigitChars[i] = c) - 1

\* int() of a string of digits
RECURSIVE ToInt(_)
ToInt(s) ==
  IF s = <<>> THEN 0 ELSE 10 * ToInt(SubSeq(s, 1, Len(s) - 1)) + DigitVal(s[Len(s)])

\* str.strip()
Strip(s) ==
  IF \A i \in 1..Len(s) : IsSpace(s[i]) THEN <<>>
  ELSE LET a == CHOOSE i \in 1..Len(s) : ~IsSpace(s[i]) /\ \A j \in 1..(i - 1) : IsSpace(s[j])
           b == CHOOSE i \in 1..Len(s) : ~IsSpace(s[i]) /\ \A j \in (i + 1)..Len(s) : IsSpace(s[j])
       IN  SubSeq(s, a, b)

\* " ".join(parts)
RECURSIVE Join(_)
Join(parts) ==
  IF parts = <<>> THEN <<>>
  ELSE IF Len(parts) = 1 THEN parts[1]
  ELSE parts[1] \o <<" ">> \o Join(Tail(parts))

\* \b at the gap after position p of s (p = 0 is the start, p = Len(s) the end)
AtWordBoundary(s, p) ==
  LET before == p >= 1 /\ IsWordChar(s[p])
      after  == p + 1 <= Len(s) /\ IsWordChar(s[p + 1])
  IN  before # after

\* re.search(rf"\b{re.escape(w)}\b", t)
SearchWord(w, t) ==
  /\ Len(w) >= 1
  /\ \E i \in 1..(Len(t) - Len(w) + 1) :
        /\ t[i] = w[1]
        /\ SubSeq(t, i, i + Len(w) - 1) = w
        /\ AtWordBoundary(t, i - 1)
        /\ AtWordBoundary(t, i + Len(w) - 1)

\* Optional[...] values
None == [some |-> FALSE, val |-> <<>>]
Some(v) == [some |-> TRUE, val |-> v]

\* hashlib.sha1(...).hexdigest(): distinct strings get distinct digests
jhash(s) == << "sha1", s >>

-----------------------------------------------------------------------------
(* Year filter, lines 176-182 *)

\* 20\d{2}
Is20dd(s) == Len(s) = 4 /\ s[1] = "2" /\ s[2] = "0" /\ IsDigit(s[3]) /\ IsDigit(s[4])

\* \s*-\s*
IsDashSep(s) ==
  \E i \in 1..Len(s) : s[i] = "-" /\ \A j \in (1..Len(s)) \ {i} : IsSpace(s[j])

\* the end anchor left out: a year at the head of the string is enough to match
YearMatch_Prefix(s) ==
  IF Len(s) < 4 \/ ~Is20dd(SubSeq(s, 1, 4)) THEN None
  ELSE LET ends == { k \in 5..(Len(s) - 4) :
                       IsDashSep(SubSeq(s, 5, k)) /\ Is20dd(SubSeq(s, k + 1, k + 4)) }
       IN  IF ends = {} THEN Some(<< SubSeq(s, 1, 4), <<>> >>)
           ELSE LET k == CHOOSE e \in ends : TRUE
                IN  Some(<< SubSeq(s, 1, 4), SubSeq(s, k + 1, k + 4) >>)

\* re.match(r"^(20\d{2})(?:\s*-\s*(20\d{2}))?$", s): the two groups, or no match
YearMatch(s) ==
  IF Len(s) = 4 /\ Is20dd(s) THEN Some(<< s, <<>> >>)
  ELSE IF /\ Len(s) >= 9
          /\ Is20dd(SubSeq(s, 1, 4))
          /\ Is20dd(SubSeq(s, Len(s) - 3, Len(s)))
          /\ IsDashSep(SubSeq(s, 5, Len(s) - 4))
       THEN Some(<< SubSeq(s, 1, 4), SubSeq(s, Len(s) - 3, Len(s)) >>)
  ELSE None

\* list(range(a, b + 1))
RangeList(a, b) == [i \in 1..(IF b >= a THEN b - a + 1 ELSE 0) |-> a + i - 1]

ParseYears(y) ==
  IF y = <<>> \/ Lower(y) = Chars("any") THEN None
  ELSE LET m == YearMatch(Strip(y)) IN
       IF ~m.some THEN None
       ELSE LET y1 == ToInt(m.val[1])
                y2 == ToInt(IF m.val[2] # <<>> THEN m.val[2] ELSE m.val[1])
            IN  Some(RangeList(y1, y2))

-----------------------------------------------------------------------------
(* Heuristic signals and the scorer, lines 34-37, 56-73, 144-162 *)

\* Substring test: sub in s
Contains(sub, s) ==
  \E i \in 1..(Len(s) - Len(sub) + 1) : SubSeq(s, i, i + Len(sub) - 1) = sub

\* the least element first
RECURSIVE SortAsc(_)
SortAsc(S) ==
  IF S = {} THEN <<>>
  ELSE LET m == CHOOSE x \in S : \A y \in S : x <= y IN << m >> \o SortAsc(S \ {m})

SeqToSet(q) == {q[i] : i \in 1..Len(q)}

\* {int(y) for y in YEAR_RE.findall(text)}, YEAR_RE = \b(20\d{2})\b
YearSet(t) ==
  { ToInt(SubSeq(t, i, i + 3)) :
      i \in { j \in 1..(Len(t) - 3) :
                /\ t[j] = "2"
                /\ Is20dd(SubSeq(t, j, j + 3))
                /\ AtWordBoundary(t, j - 1)
                /\ AtWordBoundary(t, j + 3) } }

extract_years(t) == SortAsc(YearSet(t))

synonyms ==
  << << Chars("united kingdom"),
        << Chars("uk"), Chars("u.k."), Chars("britain"), Chars("british"), Chars("england"),
           Chars("scotland"), Chars("wales"), Chars("northern ireland") >> >>,
     << Chars("united states"),
        << Chars("usa"), Chars("u.s."), Chars("america"), Chars("american"), Chars("us") >> >>,
     << Chars("uae"),
        << Chars("united arab emirates"), Chars("emirati"), Chars("dubai"), Chars("abu dhabi") >> >>,
     << Chars("india"), << Chars("indian"), Chars("bharat") >> >>,
     << Chars("europe"), << Chars("eu"), Chars("european union") >> >> >>

\* synonyms.get(c, [])
SynonymsOf(c) ==
  IF \E i \in 1..Len(synonyms) : synonyms[i][1] = c
  THEN synonyms[CHOOSE i \in 1..Len(synonyms) : synonyms[i][1] = c][2]
  ELSE <<>>

\* the synonym table not consulted: the country name alone is looked for
find_country_hits_NameOnly(t, cty) ==
  IF ~cty.some \/ cty.val = <<>> \/ Lower(cty.val) = Chars("worldwide") THEN {}
  ELSE IF SearchWord(Lower(cty.val), Lower(t)) THEN { Lower(cty.val) } ELSE {}

\* The distinct matched tokens; the source returns them as a sorted list, and only
\* their number and membership are read.  cty is an Optional string.
find_country_hits(t, cty) ==
  IF ~cty.some \/ cty.val = <<>> \/ Lower(cty.val) = Chars("worldwide") THEN {}
  ELSE LET c    == Lower(cty.val)
           keys == << c >> \o SynonymsOf(c)
           tl   == Lower(t)
       IN  { keys[i] : i \in { j \in 1..Len(keys) : SearchWord(keys[j], tl) } }

\* re.findall(r"[A-Za-z0-9\-]+", topic), line 184
IsTermChar(c) == IsUpper(c) \/ IsLower(c) \/ IsDigit(c) \/ c = "-"

RECURSIVE TokensFrom(_, _)
TokensFrom(s, i) ==
  IF i > Len(s) THEN <<>>
  ELSE IF ~IsTermChar(s[i]) THEN TokensFrom(s, i + 1)
  ELSE LET j == CHOOSE k \in i..Len(s) :
                  /\ \A l \in i..k : IsTermChar(s[l])
                  /\ (k = Len(s) \/ ~IsTermChar(s[k + 1]))
       IN  << SubSeq(s, i, j) >> \o TokensFrom(s, j + 1)

Tokenize(s) == TokensFrom(s, 1)

\* lines 147-150: the loop over topic_terms, in thousandths
TopicTermScore(t, terms) ==
  LET tl == Lower(t) IN
  1000 * Cardinality({ i \in 1..Len(terms) : SearchWord(Lower(terms[i]), tl) })

\* lines 151-155; ys is an Optional list of years
YearScore(t, ys) ==
  IF ys.some /\ ys.val # <<>>
  THEN 600 * Cardinality(YearSet(t) \cap SeqToSet(ys.val))
  ELSE 0

relevance_score(t, terms, ys, cty) ==
  TopicTermScore(t, terms)
    + YearScore(t, ys)
    + 800 * Cardinality(find_country_hits(t, cty))
    + (IF Len(t) > 2000 THEN 500 ELSE 0)

\* round(score, 2) of a score in thousandths
Round2(x) == ((x + 5) \div 10) * 10

-----------------------------------------------------------------------------
(* Fetch and text extraction, lines 23-32, 134-142 *)

\* A document is a sequence of elements [tag, hidden, text]; r.text == "" is <<>>.
DropTags == {"script", "style", "noscript", "header", "footer", "nav", "aside", "form"}

Keep(el) == el.tag \notin DropTags /\ ~el.hidden /\ Strip(el.text) # <<>>

RECURSIVE KeptTexts(_)
KeptTexts(doc) ==
  IF doc = <<>> THEN <<>>
  ELSE (IF Keep(doc[1]) THEN << Strip(doc[1].text) >> ELSE <<>>) \o KeptTexts(Tail(doc))

\* decompose the dropped elements, then get_text(" ", strip=True); the element
\* texts of Docs hold no runs of whitespace for re.sub(r"\s+", " ") to collapse
clean_text(doc) == Join(KeptTexts(doc))

\* the content-type test left out
fetch_html_AnyType(r) ==
  IF r.fault THEN None
  ELSE IF r.status = 200 THEN Some(r.body)
  ELSE None

\* r: a response [fault, status, ctype, body]; fault: requests.get raised
fetch_html(r) ==
  IF r.fault THEN None
  ELSE IF r.status = 200 /\ Contains(Chars("text/html"), r.ctype) THEN Some(r.body)
  ELSE None

-----------------------------------------------------------------------------
(* Title dedup, lines 228-234 *)

\* jhash((r["title"] or "").lower())
TitleHash(r) == jhash(Lower(r.title))

\* the sort left out: the walk runs in arrival order
SortedByScore_Unsorted(q) == q

\* reverse=True left out: the stable sort runs by increasing score
RECURSIVE SortedByScore_Ascending(_)
SortedByScore_Ascending(q) ==
  IF q = <<>> THEN <<>>
  ELSE LET rest == SortedByScore_Ascending(SubSeq(q, 1, Len(q) - 1))
           r    == q[Len(q)]
           k    == Cardinality({ i \in 1..Len(rest) : rest[i].score <= r.score })
       IN  SubSeq(rest, 1, k) \o << r >> \o SubSeq(rest, k + 1, Len(rest))

\* an increasing sort read backwards: equal scores come out last-arrived first
RECURSIVE SortedByScore_TiesReversed(_)
SortedByScore_TiesReversed(q) ==
  IF q = <<>> THEN <<>>
  ELSE LET rest == SortedByScore_TiesReversed(SubSeq(q, 1, Len(q) - 1))
           r    == q[Len(q)]
           k    == Cardinality({ i \in 1..Len(rest) : rest[i].score > r.score })
       IN  SubSeq(rest, 1, k) \o << r >> \o SubSeq(rest, k + 1, Len(rest))

\* sorted(q, key=score, reverse=True): stable, equal scores keep their order
RECURSIVE SortedByScore(_)
SortedByScore(q) ==
  IF q = <<>> THEN <<>>
  ELSE LET rest == SortedByScore(SubSeq(q, 1, Len(q) - 1))
           r    == q[Len(q)]
           k    == Cardinality({ i \in 1..Len(rest) : rest[i].score >= r.score })
       IN  SubSeq(rest, 1, k) \o << r >> \o SubSeq(rest, k + 1, Len(rest))

\* the walk: keep the first record of each title hash, in insertion order
RECURSIVE FirstPerTitle(_)
FirstPerTitle(q) ==
  IF q = <<>> THEN <<>>
  ELSE LET kept == FirstPerTitle(SubSeq(q, 1, Len(q) - 1))
           r    == q[Len(q)]
       IN  IF \E i \in 1..Len(kept) : TitleHash(kept[i]) = TitleHash(r)
           THEN kept
           ELSE Append(kept, r)

Dedup(q) == FirstPerTitle(SortedByScore(q))

-----------------------------------------------------------------------------
(* The environment: what the search engine and the fetched hosts may answer *)

MaxUrls == 2

W_any == Chars("any")
W_worldwide == Chars("worldwide")

Args(t, y, c) == [topic |-> Chars(t), year |-> Chars(y), country |-> Chars(c)]

\* the command lines tried
Queries ==
  { Args("", "any", "worldwide"),
    Args("cyber", "any", "worldwide"),
    Args("Cyber cyber", "2023-2024", "India"),
    Args("cyber", "2024-2023", "worldwide") }

Entry(t, h) == [title |-> Chars(t), href |-> h]

\* div.result__body boxes of a result page; an empty title or href is a missing one
SearchPages ==
  { <<>>,
    << Entry("News", "http://a/1") >>,
    << Entry("news", "http://b/2"), Entry("Other", "http://a/1") >>,
    << Entry("", "http://c/3") >>,
    << Entry("News", "http://a/1"), Entry("NEWS", "http://b/2"), Entry("Other", "") >> }

SearchResp(st, es, sp, nf) ==
  [fault |-> FALSE, status |-> st, entries |-> es, s_param |-> sp, next_form |-> nf]

SearchFault == [fault |-> TRUE, status |-> 0, entries |-> <<>>, s_param |-> None, next_form |-> FALSE]

\* no search request answered
NoSearchResp == SearchResp(0, <<>>, None, FALSE)

SearchResponses ==
  { SearchFault,
    SearchResp(404, << Entry("News", "http://a/1") >>, None, FALSE),
    SearchResp(202, << Entry("News", "http://a/1") >>, Some(Chars("0")), TRUE) }
  \cup { SearchResp(200, es, Some(Chars("0")), TRUE) : es \in SearchPages }
  \cup { SearchResp(200, es, None, nf) : es \in SearchPages, nf \in BOOLEAN }

Filler(n) == [i \in 1..n |-> "."]
El(tg, txt) == [tag |-> tg, hidden |-> FALSE, text |-> txt]

DocShort == << El("p", Chars("cyber news")) >>
DocOnTopic == << El("nav", Chars("menu")), El("p", Chars("Cyber attack 2024 india ") \o Filler(300)) >>
DocLong == << El("p", Chars("cyber cyber ") \o Filler(2000)) >>
DocOffTopic == << El("p", Chars("weather 2024 ") \o Filler(300)) >>
DocScript == << El("script", Chars("cyber ") \o Filler(300)), El("p", Chars("cyber")) >>
DocBritain == << El("p", Chars("Ransomware hit hospitals in Britain in 2024 ") \o Filler(300)) >>
DocEngland ==
  << El("p", Chars("healthcare ransomware in britain and england, 2024 ") \o Filler(300)) >>

Docs == { <<>>, DocShort, DocOnTopic, DocLong, DocOffTopic, DocScript, DocBritain, DocEngland }

FetchResp(st, ct, b) == [fault |-> FALSE, status |-> st, ctype |-> Chars(ct), body |-> b]

FetchFault == [fault |-> TRUE, status |-> 0, ctype |-> <<>>, body |-> <<>>]

\* no request made for the candidate
NoResp == [fault |-> FALSE, status |-> 0, ctype |-> <<>>, body |-> <<>>]

FetchResponses ==
  { FetchFault,
    FetchResp(404, "text/html", DocOnTopic),
    FetchResp(200, "application/pdf", DocOnTopic) }
  \cup { FetchResp(200, "text/html; charset=utf-8", d) : d \in Docs }

-----------------------------------------------------------------------------
(* The run *)

argVars == << topic, year, country, max_urls >>
searchVars == << results, start, seeds, sresp >>
prepVars == << years, topic_terms, use_country >>
candVars == << resp, html, text, score, cstate, extracted, scored >>
mainVars == << records, printed, saved >>

InitRest ==
  /\ query = <<>>
  /\ results = <<>> /\ start = 0 /\ seeds = <<>>
  /\ searchReqs = 0 /\ sresp = NoSearchResp /\ fetched = <<>> /\ delayed = FALSE
  /\ years = None /\ topic_terms = <<>> /\ use_country = None
  /\ idx = 0 /\ seen_url = {} /\ out = <<>>
  /\ resp = NoResp /\ html = None /\ text = <<>> /\ score = 0
  /\ cstate = "none" /\ extracted = FALSE /\ scored = FALSE
  /\ faultIdx = 0
  /\ records = <<>> /\ printed = "" /\ saved = FALSE

Init ==
  /\ \E q \in Queries : topic = q.topic /\ year = q.year /\ country = q.country
  /\ max_urls \in 1..MaxUrls
  /\ pc = "main"
  /\ InitRest

\* lines 166-171
BuildQuery(t, y, c) ==
  Join(<< t >>
       \o (IF y # <<>> /\ Lower(y) # W_any THEN << y >> ELSE <<>>)
       \o (IF c # <<>> /\ Lower(c) # W_worldwide THEN << c >> ELSE <<>>))

\* main() calls crawl_topic_ddg, which builds the query and calls ddg_search
main_crawl ==
  /\ pc = "main"
  /\ query' = BuildQuery(topic, year, country)
  /\ pc' = "search_first"
  /\ UNCHANGED << argVars, searchVars, searchReqs, fetched, delayed, prepVars, idx,
                  seen_url, out, candVars, faultIdx, mainVars >>

\* parse_page, lines 97-107: the hits of the boxes that have a title and an href
RECURSIVE parse_page(_)
parse_page(es) ==
  IF es = <<>> THEN <<>>
  ELSE (IF es[1].title # <<>> /\ es[1].href # ""
        THEN << [title |-> es[1].title, url |-> es[1].href] >>
        ELSE <<>>) \o parse_page(Tail(es))

\* raise_for_status left out: the first response is parsed whatever its status
RaisesForStatus_Never(st) == FALSE

\* raise_for_status, line 94
RaisesForStatus(st) == st >= 400 /\ st < 600

\* the offset input not asked for: the form alone starts the pagination
HasPagination_FormOnly(r) == r.next_form

\* if s_param and next_form, line 114
HasPagination(r) == r.s_param.some /\ r.next_form

\* lines 93-115: the first request
ddg_first ==
  /\ pc = "search_first"
  /\ \E r \in SearchResponses :
       /\ searchReqs' = searchReqs + 1
       /\ sresp' = r
       /\ delayed' = FALSE
       /\ IF r.fault
          THEN /\ printed' = "Error"
               /\ pc' = "done"
               /\ UNCHANGED << results, start >>
          ELSE IF RaisesForStatus(r.status)
          THEN /\ printed' = "HTTP error"
               /\ pc' = "done"
               /\ UNCHANGED << results, start >>
          ELSE /\ results' = results \o parse_page(r.entries)
               /\ printed' = printed
               /\ IF HasPagination(r)
                  THEN start' = ToInt(r.s_param.val) /\ pc' = "paginate"
                  ELSE start' = start /\ pc' = "search_return"
  /\ UNCHANGED << argVars, query, seeds, fetched, prepVars, idx, seen_url, out, candVars,
                  faultIdx, records, saved >>

\* the sleep left out: the delay flag stays as the last request left it
time_sleep_Skipped(d) == d

\* time.sleep, lines 120 and 226: whatever the flag was, a delay has now run
time_sleep(d) == TRUE

\* the loop test dropped: pages are pulled as long as they bring entries
MorePagesWanted_Always(n, mx) == TRUE

\* while len(results) < max_results, line 117
MorePagesWanted(n, mx) == n < mx

\* lines 117-120: the loop test, the offset and the politeness delay
ddg_page_delay ==
  /\ pc = "paginate"
  /\ IF MorePagesWanted(Len(results), max_urls)
     THEN start' = start + 30 /\ delayed' = time_sleep(delayed) /\ pc' = "page_request"
     ELSE start' = start /\ delayed' = delayed /\ pc' = "search_return"
  /\ UNCHANGED << argVars, query, results, seeds, sresp, searchReqs, fetched, prepVars, idx,
                  seen_url, out, candVars, faultIdx, mainVars >>

\* requests.post of line 121 stands outside any try: a transport fault propagates
PageRequestRaises(r) == r.fault

\* the status test left out: the page is parsed whatever its status
PageFailed_Never(st) == FALSE

\* if r.status_code != 200: break, lines 122-123
PageFailed(st) == st # 200

\* lines 121-128: one further page
ddg_page ==
  /\ pc = "page_request"
  /\ \E r \in SearchResponses :
       /\ searchReqs' = searchReqs + 1
       /\ sresp' = r
       /\ delayed' = FALSE
       /\ IF PageRequestRaises(r)
          THEN /\ printed' = "Error"
               /\ pc' = "done"
               /\ results' = results
          ELSE IF PageFailed(r.status)
          THEN /\ printed' = printed
               /\ pc' = "search_return"
               /\ results' = results
          ELSE /\ printed' = printed
               /\ results' = results \o parse_page(r.entries)
               /\ pc' = IF Len(results') = Len(results) THEN "search_return" ELSE "paginate"
  /\ UNCHANGED << argVars, query, start, seeds, fetched, prepVars, idx, seen_url, out,
                  candVars, faultIdx, records, saved >>

\* the slice left out
Truncate_Whole(q, n) == q

\* results[:max_results], line 130
Truncate(q, n) == SubSeq(q, 1, IF Len(q) < n THEN Len(q) ELSE n)

\* line 130 and line 174
ddg_return ==
  /\ pc = "search_return"
  /\ seeds' = Truncate(results, max_urls)
  /\ pc' = "prepare"
  /\ UNCHANGED << argVars, query, results, start, sresp, searchReqs, fetched, delayed, prepVars,
                  idx, seen_url, out, candVars, faultIdx, mainVars >>

\* lines 176-188
crawl_prepare ==
  /\ pc = "prepare"
  /\ years' = ParseYears(year)
  /\ topic_terms' = Tokenize(topic)
  /\ use_country' = IF Lower(country) = W_worldwide THEN None ELSE Some(country)
  /\ out' = <<>>
  /\ seen_url' = {}
  /\ sresp' = NoSearchResp
  /\ pc' = "loop"
  /\ UNCHANGED << argVars, query, results, start, seeds, searchReqs, fetched, delayed, idx,
                  candVars, faultIdx, mainVars >>

\* "continue": the candidate is rejected and the loop goes on
Continue ==
  /\ cstate' = "Rejected"
  /\ pc' = "loop"

\* seen_url.add(key) left out: no URL is ever remembered
MarkSeen_Forgotten(seen, key) == seen

\* seen_url.add(key), line 195
MarkSeen(seen, key) == seen \cup {key}

\* lines 190-195: the next hit, and the URL-seen test
crawl_next ==
  /\ pc = "loop"
  /\ IF idx + 1 > Len(seeds)
     THEN /\ pc' = "dedup"
          /\ UNCHANGED << idx, seen_url, candVars >>
     ELSE LET key == jhash(seeds[idx + 1].url) IN
          /\ idx' = idx + 1
          /\ resp' = NoResp /\ html' = None /\ text' = <<>> /\ score' = 0
          /\ extracted' = FALSE /\ scored' = FALSE
          /\ IF key \in seen_url
             THEN Continue /\ seen_url' = seen_url
             ELSE /\ seen_url' = MarkSeen(seen_url, key)
                  /\ cstate' = "Seen-URL"
                  /\ pc' = "fetch"
  /\ UNCHANGED << argVars, query, searchVars, searchReqs, fetched, delayed, prepVars, out,
                  faultIdx, mainVars >>

\* the try/except left out: a transport fault escapes fetch_html
FetchRaises_NoExcept(r) == r.fault

\* fetch_html catches every Exception, lines 135 and 140-141: nothing escapes it
FetchRaises(r) == FALSE

\* lines 197-199
crawl_fetch ==
  /\ pc = "fetch"
  /\ \E r \in FetchResponses :
       /\ resp' = r
       /\ fetched' = Append(fetched, seeds[idx].url)
       /\ delayed' = FALSE
       /\ faultIdx' = IF r.fault /\ faultIdx = 0 THEN idx ELSE faultIdx
       /\ IF FetchRaises(r)
          THEN /\ printed' = "Error"
               /\ pc' = "done"
               /\ UNCHANGED << html, cstate >>
          ELSE /\ html' = fetch_html(r)
               /\ printed' = printed
               /\ IF ~html'.some \/ html'.val = <<>>
                  THEN Continue
                  ELSE cstate' = "Fetched" /\ pc' = "extract"
  /\ UNCHANGED << argVars, query, searchVars, searchReqs, prepVars, idx, seen_url, out,
                  text, score, extracted, scored, records, saved >>

\* line 201
TooShort(t) == Len(t) < 300

\* lines 200-202
crawl_extract ==
  /\ pc = "extract"
  /\ text' = clean_text(html.val)
  /\ extracted' = TRUE
  /\ IF TooShort(text')
     THEN Continue
     ELSE cstate' = "TextExtracted" /\ pc' = "score"
  /\ UNCHANGED << argVars, query, searchVars, searchReqs, fetched, delayed, prepVars, idx,
                  seen_url, out, resp, html, score, scored, faultIdx, mainVars >>

\* the threshold set at the length bonus
BelowThreshold_Half(sc) == sc < 500

\* line 205
BelowThreshold(sc) == sc < 1000

\* lines 204-206
crawl_score ==
  /\ pc = "score"
  /\ score' = relevance_score(text, topic_terms, years, use_country)
  /\ scored' = TRUE
  /\ IF BelowThreshold(score')
     THEN Continue
     ELSE cstate' = "Scored" /\ pc' = "accept"
  /\ UNCHANGED << argVars, query, searchVars, searchReqs, fetched, delayed, prepVars, idx,
                  seen_url, out, resp, html, text, extracted, faultIdx, mainVars >>

\* lines 215-224; pub_date, source and snippet are read by no operation and left out
MakeRecord(item, t, sc, cty) ==
  [ title        |-> item.title,
    url          |-> item.url,
    score        |-> Round2(sc),
    years_found  |-> extract_years(t),
    country_hits |-> find_country_hits(t, cty) ]

\* lines 208-226: the record, and the polite delay
crawl_accept ==
  /\ pc = "accept"
  /\ out' = Append(out, MakeRecord(seeds[idx], text, score, use_country))
  /\ delayed' = time_sleep(delayed)
  /\ cstate' = "Accepted"
  /\ pc' = "loop"
  /\ UNCHANGED << argVars, query, searchVars, searchReqs, fetched, prepVars, idx, seen_url,
                  resp, html, text, score, extracted, scored, faultIdx, mainVars >>

\* lines 228-234, and the return to main
crawl_dedup ==
  /\ pc = "dedup"
  /\ records' = Dedup(out)
  /\ pc' = "report"
  /\ UNCHANGED << argVars, query, searchVars, searchReqs, fetched, delayed, prepVars, idx,
                  seen_url, out, candVars, faultIdx, printed, saved >>

\* lines 257-270
main_report ==
  /\ pc = "report"
  /\ IF records = <<>>
     THEN printed' = "No records found" /\ saved' = FALSE
     ELSE printed' = "Saved" /\ saved' = TRUE
  /\ pc' = "done"
  /\ UNCHANGED << argVars, query, searchVars, searchReqs, fetched, delayed, prepVars, idx,
                  seen_url, out, candVars, faultIdx, records >>

Next ==
  \/ main_crawl
  \/ ddg_first
  \/ ddg_page_delay
  \/ ddg_page
  \/ ddg_return
  \/ crawl_prepare
  \/ crawl_next
  \/ crawl_fetch
  \/ crawl_extract
  \/ crawl_score
  \/ crawl_accept
  \/ crawl_dedup
  \/ main_report

Spec == Init /\ [][Next]_vars

\* The run up to the return of ddg_search, lines 86-130
NextSearch ==
  \/ main_crawl
  \/ ddg_first
  \/ ddg_page_delay
  \/ ddg_page
  \/ ddg_return

SpecSearch == Init /\ [][NextSearch]_vars /\ WF_vars(NextSearch)

-----------------------------------------------------------------------------
(* The dedup step on any list of accepted records: the run stands at line 228 *)
(* with the records of out accepted one per hit, each from its own URL.       *)

MaxRecs == 3

DedupTitles == { Chars("News"), Chars("news"), Chars("Other"), Chars("Brief") }
DedupScores == { 2100, 3400 }

DedupUrl(i) == << "http://h/", i >>

AcceptedLists ==
  UNION { { [i \in 1..n |-> [ title        |-> ts[i],
                              url          |-> DedupUrl(i),
                              score        |-> ss[i],
                              years_found  |-> <<>>,
                              country_hits |-> {} ]] :
              ts \in [1..n -> DedupTitles], ss \in [1..n -> DedupScores] } :
          n \in 0..MaxRecs }

InitDedup ==
  /\ topic = Chars("cyber") /\ year = W_any /\ country = W_worldwide
  /\ max_urls = MaxRecs
  /\ query = Chars("cyber")
  /\ pc = "dedup"
  /\ out \in AcceptedLists
  /\ seeds = [i \in 1..Len(out) |-> [title |-> out[i].title, url |-> out[i].url]]
  /\ results = seeds /\ start = 0 /\ searchReqs = 1 /\ sresp = NoSearchResp
  /\ fetched = [i \in 1..Len(out) |-> out[i].url]
  /\ seen_url = { jhash(out[i].url) : i \in 1..Len(out) }
  /\ idx = Len(out)
  /\ delayed = (out # <<>>)
  /\ years = None /\ topic_terms = << Chars("cyber") >> /\ use_country = None
  /\ resp = NoResp /\ html = None /\ text = <<>> /\ score = 0
  /\ cstate = "none" /\ extracted = FALSE /\ scored = FALSE
  /\ faultIdx = 0
  /\ records = <<>> /\ printed = "" /\ saved = FALSE

NextDedup ==
  \/ crawl_dedup
  \/ main_report

SpecDedup == InitDedup /\ [][NextDedup]_vars

-----------------------------------------------------------------------------
(* The candidate loop on its own, lines 176-234: the search has returned one
   hit, and the year filter, topic and country range over more values *)

CrawlTopics == { Chars("cyber"), Chars("ransomware healthcare") }

CrawlYears ==
  { Chars("any"), Chars("ANY"), Chars("2024"), Chars(" 2024 "), Chars("2023-2024"),
    Chars("2024 - 2025"), Chars(""), Chars("2024-25"), Chars("2024-"), Chars("-2024"),
    Chars("1999"), Chars("20 24"), Chars("2024/2025"), Chars("2023-2024-2025"),
    Chars("y2024"), Chars("20245") }

CrawlCountries == { Chars("worldwide"), Chars("United Kingdom") }

CrawlPage == << Entry("News", "http://a/1") >>

InitCrawl ==
  /\ topic \in CrawlTopics /\ year \in CrawlYears /\ country \in CrawlCountries
  /\ max_urls = 1
  /\ query = BuildQuery(topic, year, country)
  /\ pc = "prepare"
  /\ sresp = SearchResp(200, CrawlPage, None, FALSE)
  /\ results = parse_page(CrawlPage) /\ seeds = results /\ start = 0
  /\ searchReqs = 1 /\ fetched = <<>> /\ delayed = FALSE
  /\ years = None /\ topic_terms = <<>> /\ use_country = None
  /\ idx = 0 /\ seen_url = {} /\ out = <<>>
  /\ resp = NoResp /\ html = None /\ text = <<>> /\ score = 0
  /\ cstate = "none" /\ extracted = FALSE /\ scored = FALSE
  /\ faultIdx = 0
  /\ records = <<>> /\ printed = "" /\ saved = FALSE

NextCrawl ==
  \/ crawl_prepare
  \/ crawl_next
  \/ crawl_fetch
  \/ crawl_extract
  \/ crawl_score
  \/ crawl_accept
  \/ crawl_dedup
  \/ main_report

SpecCrawl == InitCrawl /\ [][NextCrawl]_vars

-----------------------------------------------------------------------------
(* Claims *)

\* the run returned from crawl_topic_ddg: records is its result
Returned == pc \in {"report", "done"} /\ printed \notin {"Error", "HTTP error"}

SameTitle(a, b) == Lower(a.title) = Lower(b.title)

\* index in out of the record that must survive for the title of out[i]: the
\* first one among those of maximum score
Survivor(i) ==
  CHOOSE k \in 1..Len(out) :
    /\ SameTitle(out[k], out[i])
    /\ \A j \in 1..Len(out) :
         SameTitle(out[j], out[i]) =>
           \/ out[j].score < out[k].score
           \/ (out[j].score = out[k].score /\ k <= j)

\* C1: after the dedup step the output holds at most one record per lowercased
\* title, and for each title of the accepted records exactly the record of
\* maximum score, the first-arrived one among those of maximum score.
C1_DedupKeepsMaxScore ==
  Returned =>
    /\ \A a, b \in 1..Len(records) : a # b => ~SameTitle(records[a], records[b])
    /\ SeqToSet(records) = { out[Survivor(i)] : i \in 1..Len(out) }

\* C1 witness, scenario D: a 2.1 record arrived before a 3.4 record whose title
\* differs in case only, and only the 3.4 one is returned
C1_Witness ==
  /\ Returned
  /\ \E i, j \in 1..Len(out) :
       /\ i < j
       /\ SameTitle(out[i], out[j]) /\ out[i].title # out[j].title
       /\ out[i].score = 2100 /\ out[j].score = 3400
       /\ out[j] \in SeqToSet(records)
       /\ out[i] \notin SeqToSet(records)

\* the answer to the last search request was a transport fault on a later page
LaterPageFault == searchReqs >= 2 /\ sresp.fault

\* C2 (as claimed): a transport fault on a later search page only ends
\* pagination; ddg_search returns what it collected and the run goes on.
C2_LaterPageFaultEndsPagination ==
  LaterPageFault => (pc = "search_return" /\ printed = "")

\* crawl_topic_ddg got past the year parse of lines 176-182
Prepared ==
  \/ pc \in {"loop", "fetch", "extract", "score", "accept", "dedup", "report"}
  \/ (pc = "done" /\ printed \notin {"Error", "HTTP error"})

Min(a, b) == IF a <= b THEN a ELSE b
Max(a, b) == IF a >= b THEN a ELSE b

\* C3 (as claimed): a filter "Y1-Y2" yields the years min(Y1,Y2)..max(Y1,Y2),
\* whatever the order of the two years.
C3_YearRangeOrderIndependent ==
  LET m == YearMatch(Strip(year)) IN
  (Prepared /\ m.some /\ m.val[2] # <<>>) =>
     LET y1 == ToInt(m.val[1])
         y2 == ToInt(m.val[2])
     IN  years.some /\ SeqToSet(years.val) = Min(y1, y2)..Max(y1, y2)

\* C4 (as claimed): with an empty topic no search request and no page fetch is
\* ever issued.
C4_EmptyTopicNoNetwork ==
  topic = <<>> => (searchReqs = 0 /\ fetched = <<>>)

\* C5: once the fetch of a candidate met a transport fault, the run is not
\* aborted; the faulted candidate has no body and is rejected without text
\* extraction or scoring; every later hit is still processed (its URL is
\* fetched, in this pass or for an earlier hit); and the run ends by returning
\* the deduplicated accepted records, written out when there are any.
C5_FetchFaultContinues ==
  faultIdx > 0 =>
    /\ printed \notin {"Error", "HTTP error"}
    /\ resp.fault => (html = None /\ cstate = "Rejected" /\ ~extracted /\ ~scored)
    /\ pc \in {"dedup", "report", "done"} =>
         \A j \in (faultIdx + 1)..Len(seeds) : seeds[j].url \in SeqToSet(fetched)
    /\ pc = "done" => (saved <=> out # <<>>)

\* C5 witness: a run ended in which a fetch faulted and a later hit was accepted
\* and returned
C5_Witness ==
  /\ pc = "done" /\ saved
  /\ faultIdx > 0
  /\ \E j \in (faultIdx + 1)..Len(seeds) :
       \E k \in 1..Len(records) :
         records[k].url = seeds[j].url /\ records[k].title = seeds[j].title

\* C6: ddg_search returns at most max_results hits.
C6_AtMostMaxResults == Len(seeds) <= max_urls

\* C6 witness: a later page pushed the collected count past max_results and the
\* returned list holds exactly max_results hits
C6_Witness ==
  /\ pc = "prepare"
  /\ searchReqs >= 2
  /\ Len(results) > max_urls
  /\ Len(seeds) = max_urls

\* the positions inside ddg_search
InSearch == pc \in {"search_first", "paginate", "page_request", "search_return"}

C7_Bounded ==
  /\ searchReqs <= 1 + max_urls
  /\ pc = "page_request" => Len(results) < max_urls
  /\ (searchReqs >= 2 /\ pc \in {"paginate", "page_request"}) =>
        (~sresp.fault /\ sresp.status = 200 /\ parse_page(sresp.entries) # <<>>)

C8_AcceptedIffThresholds ==
  /\ cstate \in {"Accepted", "Rejected"} =>
       (cstate = "Accepted" <=>
          /\ html.some
          /\ extracted /\ Len(text) >= 300
          /\ scored /\ score >= 1000)
  /\ cstate = "Accepted" =>
       /\ out # <<>>
       /\ out[Len(out)].url = seeds[idx].url
       /\ out[Len(out)].score = Round2(score)
  /\ pc \in {"loop", "dedup", "report"} => cstate \in {"none", "Accepted", "Rejected"}
  /\ \A i \in 1..Len(out) : out[i].score >= 1000
  /\ \A i \in 1..Len(records) : records[i].score >= 1000

\* C8 witness: a candidate after the first one is accepted
C8_Witness ==
  /\ cstate = "Accepted" /\ pc = "loop"
  /\ Len(text) >= 300 /\ score >= 1000
  /\ idx >= 2

\* the part of the score that the topic terms contributed
TopicPart ==
  score - YearScore(text, years)
        - 800 * Cardinality(find_country_hits(text, use_country))
        - (IF Len(text) > 2000 THEN 500 ELSE 0)

\* C9 (as claimed): the topic-term part of the score is 1.0 times the number
\* of distinct topic terms, compared case-insensitively, found in the text.
C9_TopicTermsCountedOnce ==
  scored =>
    TopicPart =
      1000 * Cardinality({ Lower(topic_terms[i]) :
                             i \in { j \in 1..Len(topic_terms) :
                                       SearchWord(Lower(topic_terms[j]), Lower(text)) } })

\* what the claim calls a success status and an HTML content type
IsSuccess(st) == st >= 200 /\ st <= 299
IsHtmlType(ct) == Contains(Chars("text/html"), ct)

\* C10: the candidate has a body only if its response had a success status and
\* an HTML content type; with any other status or content type (or no answer)
\* it has no body, and neither text extraction nor scoring runs on it.
C10_FetchGate ==
  /\ html.some => (~resp.fault /\ IsSuccess(resp.status) /\ IsHtmlType(resp.ctype))
  /\ (resp.fault \/ ~IsSuccess(resp.status) \/ ~IsHtmlType(resp.ctype)) =>
        /\ html = None
        /\ ~extracted /\ ~scored
        /\ cstate \in {"none", "Seen-URL", "Rejected"}

\* C10 witness, scenario B: a 200 answer of type application/pdf, rejected
\* without text extraction
C10_Witness ==
  /\ resp.status = 200 /\ resp.ctype = Chars("application/pdf")
  /\ cstate = "Rejected" /\ ~extracted /\ ~scored
  /\ html = None

\* position in out of a returned record; accepted records have distinct URLs
Arrival(r) == CHOOSE i \in 1..Len(out) : out[i].url = r.url

\* C11: the returned list is ordered by non-increasing score, and returned
\* records of equal score stand in the order in which their hits arrived.
C11_OrderedByScoreThenArrival ==
  Returned =>
    \A a, b \in 1..Len(records) :
      a < b =>
        /\ records[a].score >= records[b].score
        /\ records[a].score = records[b].score =>
             Arrival(records[a]) < Arrival(records[b])

\* C11 witness: three records are returned, the last-arrived one first because
\* of its higher score, the two others tied and in arrival order
C11_Witness ==
  /\ pc = "done"
  /\ Len(out) = 3 /\ Len(records) = 3
  /\ records[1] = out[3]
  /\ records[2] = out[1] /\ records[3] = out[2]
  /\ records[2].score = records[3].score

\* C12: the dedup and sort step applied to its own output gives the same
\* records in the same order.
C12_DedupIdempotent ==
  Returned => Dedup(records) = records

\* C12 witness: the step changed its input (a record dropped, the rest
\* reordered) and returned two records of equal score
C12_Witness ==
  /\ pc = "report"
  /\ Len(records) = 2 /\ Len(out) = 3
  /\ records[1].score = records[2].score
  /\ records[1] = out[2]

Surfaced == printed \in {"Error", "HTTP error"}

ErrorStatus(st) == st >= 400

\* the one search request made so far was the first, and this is its answer
FirstAnswer == searchReqs = 1 /\ sresp # NoSearchResp

\* C13: the output file is written exactly when the run completed without a
\* surfaced error and returned at least one record; a transport fault or an
\* error status of the first search request ends the run with a reported error
\* and no file; a run that completed with no record reports that no records
\* were found and writes no file.
C13_FileIffRecords ==
  /\ saved <=> (pc = "done" /\ ~Surfaced /\ records # <<>>)
  /\ (FirstAnswer /\ sresp.fault) =>
        (pc = "done" /\ printed = "Error" /\ ~saved)
  /\ (FirstAnswer /\ ~sresp.fault /\ ErrorStatus(sresp.status)) =>
        (pc = "done" /\ printed = "HTTP error" /\ ~saved)
  /\ (pc = "done" /\ ~Surfaced /\ records = <<>>) =>
        (printed = "No records found" /\ ~saved)

\* C13 witness: a run that fetched two pages, accepted both and wrote the file
C13_Witness ==
  /\ pc = "done" /\ saved /\ printed = "Saved"
  /\ Len(fetched) = 2 /\ Len(out) = 2 /\ records # <<>>

\* the first response was a success page without the offset input "s"
FirstUnpaged ==
  FirstAnswer /\ ~sresp.fault /\ ~ErrorStatus(sresp.status) /\ ~sresp.s_param.some

FirstN(q, n) == SubSeq(q, 1, Min(Len(q), n))

\* C14: when the first search response has no pagination offset input, the
\* search makes no second request and returns the first page's entries only
\* (cut at max_results), even when they are fewer than max_results.
C14_NoOffsetSinglePage ==
  /\ [](FirstUnpaged =>
          /\ pc \in {"search_return", "prepare"}
          /\ results = parse_page(sresp.entries)
          /\ pc = "prepare" => seeds = FirstN(parse_page(sresp.entries), max_urls))
  /\ [][FirstUnpaged => searchReqs' = 1]_vars

\* C14 witness: the first page had the "next" form but no offset input and one
\* entry, fewer than max_results; the search returned that entry after one request
C14_Witness ==
  /\ pc = "prepare" /\ FirstUnpaged
  /\ sresp.next_form
  /\ Len(seeds) = 1 /\ max_urls = 2

HasWord(w, t) == SearchWord(Chars(w), Lower(t))

ScenarioA ==
  /\ topic = Chars("ransomware healthcare")
  /\ Strip(year) = Chars("2024")
  /\ country = Chars("United Kingdom")

\* the candidate's cleaned text is that of the claim
PageA ==
  /\ extracted /\ Len(text) > 300
  /\ HasWord("ransomware", text) /\ HasWord("2024", text) /\ HasWord("britain", text)

\* C15: with topic "ransomware healthcare", year filter "2024" and country
\* "United Kingdom", a page whose cleaned text has more than 300 characters and
\* holds the whole words "ransomware", "2024" and "britain" is scored at least
\* 1.0 + 0.6 + 0.8 and accepted: a record for it is appended to the output.
C15_ScenarioAAccepted ==
  (ScenarioA /\ PageA) =>
    \/ pc = "score"
    \/ /\ scored /\ score >= 1000 + 600 + 800
       /\ pc = "accept" \/ cstate = "Accepted"
       /\ cstate = "Accepted" =>
            /\ out # <<>>
            /\ out[Len(out)].url = seeds[idx].url
            /\ out[Len(out)].score >= 1000 + 600 + 800

\* C15 witness: such a page, scored exactly 2.4 (no "healthcare", no second
\* country token), has its record in the output
C15_Witness ==
  /\ ScenarioA /\ PageA
  /\ cstate = "Accepted" /\ score = 2400
  /\ out # <<>> /\ out[Len(out)].url = seeds[idx].url

NoSpace(y) == SelectSeq(y, LAMBDA c : ~IsSpace(c))

\* "any", a bare year 20xx or "20xx-20xx", blanks aside
WellFormedYear(y) ==
  LET n == NoSpace(y) IN
  \/ Lower(n) = Chars("any")
  \/ Is20dd(n)
  \/ (Len(n) = 9 /\ Is20dd(SubSeq(n, 1, 4)) /\ n[5] = "-" /\ Is20dd(SubSeq(n, 6, 9)))

\* C16: with a malformed year filter the run raises no error and goes on with
\* no year filtering: every score of the run is the score without the
\* year-overlap term.
C16_MalformedYearNoFilter ==
  (~WellFormedYear(year) /\ pc \notin {"main", "search_first", "paginate",
                                        "page_request", "search_return", "prepare"}) =>
    /\ ~Surfaced
    /\ years = None
    /\ scored => /\ YearScore(text, years) = 0
                 /\ score = relevance_score(text, topic_terms, None, use_country)

\* C16 witness: under the filter "2024-25" a page that names the year 2024 and
\* the topic once was scored 1.0, with nothing for the year
C16_Witness ==
  /\ year = Chars("2024-25")
  /\ scored /\ score = 1000
  /\ 2024 \in YearSet(text)
  /\ cstate = "Accepted"

\* the current hit has the URL of an earlier hit of the run
DuplicateHit == idx >= 1 /\ \E j \in 1..(idx - 1) : seeds[j].url = seeds[idx].url

\* C17: no URL is fetched twice in one run, and a hit with the URL of an earlier
\* hit is skipped without a fetch, whatever became of the earlier hit (accepted,
\* rejected, or failed to fetch).
C17_NoUrlFetchedTwice ==
  /\ \A i, j \in 1..Len(fetched) : i # j => fetched[i] # fetched[j]
  /\ DuplicateHit =>
       /\ pc \in {"loop", "dedup", "report", "done"}
       /\ cstate = "Rejected" /\ resp = NoResp
       /\ \A i \in 1..Len(fetched) : \E j \in 1..(idx - 1) : seeds[j].url = fetched[i]

\* C17 witness: the fetch of the first hit failed, the second hit has the same
\* URL and was skipped: one fetch in the whole run
C17_Witness ==
  /\ pc = "done" /\ idx = 2 /\ DuplicateHit
  /\ faultIdx = 1
  /\ cstate = "Rejected" /\ Len(fetched) = 1

\* the step is a search request after the first, answered with a non-success status
LaterPageRefused ==
  /\ pc = "page_request" /\ searchReqs' = searchReqs + 1
  /\ ~sresp'.fault /\ ~IsSuccess(sresp'.status)

\* C18: a non-success status of a later search page ends the pagination with no
\* retry and no error: nothing of that page is collected, no further search
\* request is made, and the search returns the hits of the pages before it, cut
\* at max_results.
C18_LaterPageStatusStops ==
  /\ [][LaterPageRefused =>
          /\ pc' = "search_return"
          /\ results' = results
          /\ printed' = "" /\ ~Surfaced']_vars
  /\ [][pc = "search_return" =>
          /\ searchReqs' = searchReqs
          /\ pc' = "prepare"
          /\ seeds' = FirstN(results, max_urls)]_vars
  /\ [][pc \notin {"search_first", "page_request"} => searchReqs' = searchReqs]_vars

\* C18 witness: the second search request was answered 404 with an entry in its
\* body, and the search is about to return the one hit of the first page
C18_Witness ==
  /\ pc = "search_return" /\ searchReqs = 2
  /\ ~sresp.fault /\ sresp.status = 404 /\ sresp.entries # <<>>
  /\ Len(results) = 1 /\ printed = ""

\* the page fetched last belongs to the record accepted last
LastFetchAccepted ==
  /\ fetched # <<>> /\ out # <<>>
  /\ out[Len(out)].url = fetched[Len(fetched)]

\* C19: every search request after the first is made after a politeness delay
\* that ran since the request before it, and after an accepted candidate a
\* politeness delay runs before the next candidate page is fetched.
C19_PolitenessOrdering ==
  /\ [][(searchReqs' = searchReqs + 1 /\ searchReqs >= 1) => delayed]_vars
  /\ [][(Len(fetched') = Len(fetched) + 1 /\ LastFetchAccepted) => delayed]_vars

\* C19 witness: the first candidate was accepted and the second candidate is
\* about to be fetched, the delay having run
C19_Witness ==
  /\ pc = "fetch" /\ idx = 2
  /\ LastFetchAccepted /\ delayed
  /\ searchReqs >= 2

====
